---- MODULE Spec2Model ----
(***************************************************************************)
(* Model of the keyring vault: keys accounts, keyrings, the vault API and  *)
(* its storage drivers (src/src/vault/keymgm.rs, vault.rs, file_driver.rs, *)
(* delegated.rs).                                                          *)
(*                                                                         *)
(* Cryptography is symbolic.  An extended private key is the pair          *)
(* (seed it descends from, absolute BIP32 path from that seed); a          *)
(* ciphertext remembers its plaintext, the public key it was encrypted to  *)
(* and the blinding scalar, and decrypts only under the matching scalar    *)
(* and unblinding key.  A secret scalar is a natural number; the public    *)
(* key G*d is the tagged pair <<"G", d>>.                                  *)
(***************************************************************************)
EXTENDS Integers, Sequences, FiniteSets, TLC

\* ------------------------------------------------------------------ bounds
MaxKeyrings == 2      \* keyrings a vault may hold
MaxSubs     == 3      \* sub-accounts in the whole vault
MaxDepth    == 2      \* length of a derivation path
MaxChild    == 1      \* child numbers are 0..MaxChild
MaxKey      == 2      \* client decryption scalars are 1..MaxKey
MaxBlind    == 1      \* values the RNG may return for a blinding scalar
MaxAsset    == 2      \* asset ids are 1..MaxAsset

Keys       == 1..MaxKey
Blindings  == 1..MaxBlind
AssetIds   == 1..MaxAsset
ChildNums  == 0..MaxChild

\* ------------------------------------------------------- derivation paths
RECURSIVE PathsOfLen(_)
PathsOfLen(n) ==
    IF n = 0 THEN {<<>>}
    ELSE {Append(p, c) : p \in PathsOfLen(n - 1), c \in ChildNums}

Paths == UNION {PathsOfLen(n) : n \in 0..MaxDepth}

MasterPath == <<>>

IsMaster(p) == Len(p) = 0

\* derived Ord of Vec<ChildNumber>: lexicographic, a proper prefix first
RECURSIVE PathLess(_, _)
PathLess(p, q) ==
    IF Len(q) = 0 THEN FALSE
    ELSE IF Len(p) = 0 THEN TRUE
    ELSE IF Head(p) # Head(q) THEN Head(p) < Head(q)
    ELSE PathLess(Tail(p), Tail(q))

\* the keys of a BTreeMap<DerivationPath, _> in iteration order
RECURSIVE SortedPaths(_)
SortedPaths(S) ==
    IF S = {} THEN <<>>
    ELSE LET m == CHOOSE x \in S : \A y \in S \ {x} : PathLess(x, y)
         IN  <<m>> \o SortedPaths(S \ {m})

IsStrictPrefix(p, q) ==
    /\ Len(p) < Len(q)
    /\ p = SubSeq(q, 1, Len(p))

DropPrefix(q, n) == SubSeq(q, n + 1, Len(q))

\* ------------------------------------------------------ symbolic crypto
PubOf(d) == <<"G", d>>

Xpriv(root, path) == [root |-> root, path |-> path]

\* ExtendedPubKey::from_private
Neuter(xprv) == <<"xpub", xprv.root, xprv.path>>

\* ExtendedPrivKey::derive_priv
DerivePriv(xprv, rel) == Xpriv(xprv.root, xprv.path \o rel)

\* XpubIdentifier and Fingerprint of an extended public key (hashes, taken
\* to be collision free on the keys of a run)
Identifier(xpub) == <<"id", xpub[2], xpub[3]>>
Fingerprint(xpub) == <<"fp", xpub[2], xpub[3]>>

\* an extended private key that descends from no seed of the vault: what a
\* decryption under a wrong key yields when the bytes happen to decode
GarbageXpriv == Xpriv(0, <<>>)

\* an encryption that hands the plaintext bytes back
ElgamalEncrypt_Plain(plain, encryption_key, blinding) == plain

\* elgamal::encrypt: a ciphertext of plain to the holder of encryption_key
ElgamalEncrypt(plain, encryption_key, blinding) ==
    [plain |-> plain, to |-> encryption_key, blind |-> blinding]

\* elgamal::decrypt: the outcomes under a matching and a non-matching key.
\* kind "err" is a rejected ciphertext, "junk" bytes that are no extended
\* private key, "xpriv" bytes that decode to the extended private key data
ElgamalDecrypt(encrypted, decryption_key, unblinding) ==
    IF /\ PubOf(decryption_key) = encrypted.to
       /\ unblinding = PubOf(encrypted.blind)
    THEN {[kind |-> "xpriv", data |-> encrypted.plain]}
    ELSE {[kind |-> "err", data |-> GarbageXpriv],
          [kind |-> "junk", data |-> GarbageXpriv],
          [kind |-> "xpriv", data |-> GarbageXpriv]}

\* SecretKey::add_assign(&random) with fresh random bytes: the scalar moves
\* to a value outside the client's key set
NoiseStep == MaxKey + 1
MaxNoise  == 1
WipeKey(k) == {k + NoiseStep * j : j \in 1..MaxNoise}


\* ---------------------------------------------------------- KeysAccount
\* what the RNG may hand to SecretKey::from_slice: a valid scalar, or 0,
\* which from_slice rejects
RngScalars == Blindings \cup {0}

Outcome(res, val, key, locals) ==
    [res |-> res, val |-> val, key |-> key, locals |-> locals]

\* A local of one of the KeysAccount functions that held secret material, as
\* the function leaves it when it returns: "held" (the secret is still in
\* it), "fresh" (overwritten with bytes thread_rng just produced) or
\* "blinded" (the secret plus the bytes the blinding scalar was made from)
Local(fn, name, state) == [fn |-> fn, name |-> name, state |-> state]

\* secp256k1 SecretKey::add_assign(&random) on a local that holds a secret:
\* random is "zero" ([0u8; 32] as declared, the sum is the secret itself),
\* "blinding" (the bytes SecretKey::from_slice made the blinding scalar
\* from) or "fresh" (filled by thread_rng and used for nothing else)
AddAssign(state, random) ==
    IF random = "zero" THEN state
    ELSE IF random = "blinding" THEN "blinded"
    ELSE "fresh"

\* KeysAccount::with, given the seed and the blinding scalar the RNG drew
KeysAccountWith(name, details, assets, encryption_key, seed, blinding) ==
    IF blinding = 0
    THEN [res |-> "PrivkeyGeneration", val |-> "none",
          locals |-> {Local("with", "seed", "fresh"),
                      Local("with", "xprivkey", "held")}]
    ELSE LET xprivkey == Xpriv(seed, MasterPath)
         IN  [res |-> "Ok",
              locals |-> {Local("with", "seed", "fresh"),
                          Local("with", "xprivkey",
                                AddAssign("held", "blinding")),
                          Local("with", "random", "fresh")},
              val |-> [xpubkey    |-> Neuter(xprivkey),
                       name       |-> name,
                       details    |-> details,
                       assets     |-> assets,
                       encrypted  |-> ElgamalEncrypt(xprivkey, encryption_key,
                                                     blinding),
                       unblinding |-> PubOf(blinding)]]

AccIdentifier(acc) == Identifier(acc.xpubkey)
AccFingerprint(acc) == Fingerprint(acc.xpubkey)

\* KeysAccount::xprivkey: every outcome (result, returned key, value of the
\* caller's decryption_key afterwards)
Xprivkey(acc, decryption_key) ==
    UNION {
        IF d.kind = "err"
        THEN {Outcome("SecretKeyCorrupted", "none", decryption_key, {})}
        ELSE IF d.kind = "junk"
        THEN {Outcome("InvalidDerivationPath", "none", k,
                      {Local("xprivkey", "secret_data", "held")})
              : k \in WipeKey(decryption_key)}
        ELSE {Outcome("Ok", d.data, k,
                      {Local("xprivkey", "secret_data", "fresh")})
              : k \in WipeKey(decryption_key)}
        : d \in ElgamalDecrypt(acc.encrypted, decryption_key, acc.unblinding)}

\* the encryption key taken from the decryption key after xprivkey wiped it
EncryptionKeyOf_AfterWipe(decryption_key, wiped) == PubOf(wiped)

\* KeysAccount::derive reads the encryption key G*decryption_key before it
\* calls xprivkey, which wipes decryption_key
EncryptionKeyOf(decryption_key, wiped) == PubOf(decryption_key)

\* KeysAccount::derive
KeysAccountDerive(acc, derivation, name, details, assets, decryption_key) ==
    UNION {
          IF x.res # "Ok"
          THEN {Outcome(x.res, "none", x.key, x.locals)}
          ELSE IF Neuter(x.val) # acc.xpubkey
          THEN {Outcome("SecretKeyCorrupted", "none", x.key,
                   x.locals \cup {Local("derive", "master_xpriv",
                                        AddAssign("held", "zero"))})}
          ELSE LET xprivkey == DerivePriv(x.val, derivation)
                   encryption_key == EncryptionKeyOf(decryption_key, x.key)
               IN  {IF b = 0
                    THEN Outcome("PrivkeyGeneration", "none", x.key,
                           x.locals \cup {Local("derive", "master_xpriv",
                                                "held"),
                                          Local("derive", "xprivkey", "held")})
                    ELSE Outcome("Ok",
                           [xpubkey    |-> Neuter(xprivkey),
                            name       |-> name,
                            details    |-> details,
                            assets     |-> assets,
                            encrypted  |-> ElgamalEncrypt(xprivkey,
                                               encryption_key, b),
                            unblinding |-> PubOf(b)],
                           x.key,
                           x.locals \cup {Local("derive", "master_xpriv",
                                                AddAssign("held", "fresh")),
                                          Local("derive", "xprivkey", "held"),
                                          Local("derive", "random", "fresh")})
                    : b \in RngScalars}
          : x \in Xprivkey(acc, decryption_key)}

\* KeysAccount::sign_digest
Signature(digest, xprv) == <<"sig", digest, xprv>>

SignDigest(acc, digest, decryption_key) ==
    {IF x.res = "Ok"
     THEN Outcome("Ok", Signature(digest, x.val), x.key,
                  x.locals \cup {Local("sign_digest", "xprivkey",
                                       AddAssign("held", "fresh"))})
     ELSE Outcome(x.res, "none", x.key, x.locals)
     : x \in Xprivkey(acc, decryption_key)}

\* -------------------------------------------------------------- Keyring
\* Keyring::with
KeyringWith(name, details, encryption_key, seed, blinding) ==
    LET m == KeysAccountWith(name, details, {}, encryption_key, seed, blinding)
    IN  IF m.res # "Ok" THEN m
        ELSE [res |-> "Ok",
              locals |-> m.locals,
              val |-> [master_account |-> m.val,
                       key_source     |-> "None",
                       sub_accounts   |-> <<>>]]

SubPaths(kr) == DOMAIN kr.sub_accounts

\* derivation_paths without the master path
DerivationPaths_SubsOnly(kr) == SubPaths(kr)

\* Keyring::derivation_paths
DerivationPaths(kr) == {MasterPath} \cup SubPaths(kr)

\* Keyring::all_accounts: the paths of the map, in its iteration order
AllAccounts(kr) == SortedPaths({MasterPath} \cup SubPaths(kr))

\* the chosen ancestor looked up as the master whatever its path
AccountAt_AlwaysMaster(kr, path) == kr.master_account

\* the account all_accounts pairs with a path
AccountAt(kr, path) ==
    IF IsMaster(path) THEN kr.master_account ELSE kr.sub_accounts[path]

\* the closure of create_account mapped over all_accounts
NoCandidate == [some |-> FALSE, rel |-> <<>>, path |-> <<>>]

Candidate(path, derivation) ==
    IF IsStrictPrefix(path, derivation)
    THEN [some |-> TRUE, rel |-> DropPrefix(derivation, Len(path)),
          path |-> path]
    ELSE NoCandidate

Candidates(kr, derivation) ==
    LET all == AllAccounts(kr)
    IN  [i \in 1..Len(all) |-> Candidate(all[i], derivation)]

\* the comparator handed to sort_by, as the is_less the sort uses
IsLess(a, b) == a.some /\ b.some /\ Len(a.rel) < Len(b.rel)

\* slice::sort_by on a slice of at most 20 elements: insert_head from the
\* back
RECURSIVE HoleEnd(_, _, _)
HoleEnd(v, tmp, i) ==
    IF i <= Len(v) /\ IsLess(v[i], tmp) THEN HoleEnd(v, tmp, i + 1)
    ELSE i - 1

InsertHead(v) ==
    IF Len(v) >= 2 /\ IsLess(v[2], v[1])
    THEN LET j == HoleEnd(v, v[1], 3)
         IN  SubSeq(v, 2, j) \o <<v[1]>> \o SubSeq(v, j + 1, Len(v))
    ELSE v

RECURSIVE InsertionPass(_, _)
InsertionPass(v, i) ==
    IF i < 1 THEN v
    ELSE InsertionPass(SubSeq(v, 1, i - 1) \o InsertHead(SubSeq(v, i, Len(v))),
                       i - 1)

SortBy(v) == InsertionPass(v, Len(v) - 1)

\* the item create_account derives from: sorted.first()
DeriveFrom(kr, derivation) == SortBy(Candidates(kr, derivation))[1]

KrOutcome(res, kr, val, key, from, locals) ==
    [res |-> res, kr |-> kr, val |-> val, key |-> key, from |-> from,
     locals |-> locals]

\* Keyring::create_account
CreateAccount(kr, derivation, name, details, assets, decryption_key) ==
    IF derivation \in DerivationPaths(kr)
    THEN {KrOutcome("DerivationAlreadyUsed", kr, "none", decryption_key,
                    NoCandidate, {})}
    ELSE LET from == DeriveFrom(kr, derivation)
         IN  IF ~from.some
             THEN {KrOutcome("Panic", kr, "none", decryption_key, from, {})}
             ELSE {IF o.res = "Ok"
                   THEN KrOutcome("Ok",
                          [kr EXCEPT !.sub_accounts =
                               (derivation :> o.val) @@ kr.sub_accounts],
                          o.val, o.key, from, o.locals)
                   ELSE KrOutcome(o.res, kr, "none", o.key, from, o.locals)
                   : o \in KeysAccountDerive(AccountAt(kr, from.path),
                                 from.rel, name, details, assets,
                                 decryption_key)}

\* account_by_id looking among the sub-accounts only
KeyringAccountById_SubsOnly(kr, key_id) ==
    LET all == SortedPaths(SubPaths(kr))
        hit == {i \in 1..Len(all) :
                   AccIdentifier(kr.sub_accounts[all[i]]) = key_id}
    IN  IF hit = {} THEN {}
        ELSE {kr.sub_accounts[all[CHOOSE i \in hit :
                                       \A j \in hit : i <= j]]}

\* Keyring::account_by_id
KeyringAccountById(kr, key_id) ==
    IF AccIdentifier(kr.master_account) = key_id
    THEN {kr.master_account}
    ELSE LET all == SortedPaths(SubPaths(kr))
             hit == {i \in 1..Len(all) :
                        AccIdentifier(kr.sub_accounts[all[i]]) = key_id}
         IN  IF hit = {} THEN {}
             ELSE {kr.sub_accounts[all[CHOOSE i \in hit :
                                            \A j \in hit : i <= j]]}


\* ----------------------------------------------------------------- update
\* An Option is <<>> (None) or <<v>> (Some(v)).
None == <<>>
Some(v) == <<v>>

UpdateModes == {"Add", "Replace", "RemoveIgnore", "RemoveOrFail"}

UpOutcome(res, acc, count, ids) ==
    [res |-> res, acc |-> acc, count |-> count, ids |-> ids]

\* usize subtraction.  A difference below zero panics in a build with
\* overflow checks and wraps to 2^64 + (a - b) in a build without; the
\* wrapped value is written as the negative number a - b
UsizeSub(a, b) ==
    IF a >= b THEN {[panic |-> FALSE, val |-> a - b]}
    ELSE {[panic |-> TRUE, val |-> 0], [panic |-> FALSE, val |-> a - b]}

\* KeysAccount::update
KeysAccountUpdate(acc, name, details, assets, update_mode) ==
    IF name = None /\ details = None /\ assets = None
    THEN {UpOutcome("NoOp", acc, 0, {})}
    ELSE
    LET named == [acc EXCEPT
                    !.name = IF name = None THEN @ ELSE name[1],
                    !.details = IF details = None THEN @ ELSE details[1]]
    IN  IF assets = None THEN {UpOutcome("Ok", named, 0, {})}
        ELSE
        LET new == assets[1]
        IN  CASE update_mode = "Add" ->
                   {UpOutcome("Ok",
                              [named EXCEPT !.assets = @ \cup new],
                              Cardinality(new), {})}
              [] update_mode = "Replace" ->
                   {UpOutcome("Ok", [named EXCEPT !.assets = new],
                              Cardinality(acc.assets) + Cardinality(new), {})}
              [] update_mode = "RemoveIgnore" ->
                   {UpOutcome("Ok", [named EXCEPT !.assets = @ \ new],
                              Cardinality(new \cap acc.assets), {})}
              [] update_mode = "RemoveOrFail" ->
                   LET diff == new \ acc.assets
                   IN  IF diff = {}
                       THEN {UpOutcome("AssetIds", named, 0, diff)}
                       ELSE {IF c.panic
                             THEN UpOutcome("Panic", named, 0, {})
                             ELSE UpOutcome("Ok",
                                    [named EXCEPT !.assets = @ \ new],
                                    c.val, {})
                             : c \in UsizeSub(Cardinality(acc.assets),
                                              Cardinality(new))}

KrUpOutcome(res, kr, count, ids) ==
    [res |-> res, kr |-> kr, count |-> count, ids |-> ids]

\* Keyring::update_master
UpdateMasterOf(kr, name, details) ==
    {KrUpOutcome(o.res, [kr EXCEPT !.master_account = o.acc], 0, o.ids)
     : o \in KeysAccountUpdate(kr.master_account, name, details, None, "Add")}

\* update_subaccount handing the default mode on instead of the caller's
UpdateSubaccountOf_AddMode(kr, derivation, name, details, assets, update_mode) ==
    IF IsMaster(derivation)
    THEN {KrUpOutcome("MasterAccount", kr, 0, {})}
    ELSE IF derivation \notin SubPaths(kr)
    THEN {KrUpOutcome("NotFound", kr, 0, {})}
    ELSE {KrUpOutcome(o.res,
                      [kr EXCEPT !.sub_accounts[derivation] = o.acc],
                      o.count, o.ids)
          : o \in KeysAccountUpdate(kr.sub_accounts[derivation], name,
                                    details, assets, "Add")}

\* update_subaccount without the test for the master path
UpdateSubaccountOf_AnyPath(kr, derivation, name, details, assets, update_mode) ==
    IF derivation \notin SubPaths(kr)
    THEN {KrUpOutcome("NotFound", kr, 0, {})}
    ELSE {KrUpOutcome(o.res,
                      [kr EXCEPT !.sub_accounts[derivation] = o.acc],
                      o.count, o.ids)
          : o \in KeysAccountUpdate(kr.sub_accounts[derivation], name,
                                    details, assets, update_mode)}

\* Keyring::update_subaccount
UpdateSubaccountOf(kr, derivation, name, details, assets, update_mode) ==
    IF IsMaster(derivation)
    THEN {KrUpOutcome("MasterAccount", kr, 0, {})}
    ELSE IF derivation \notin SubPaths(kr)
    THEN {KrUpOutcome("NotFound", kr, 0, {})}
    ELSE {KrUpOutcome(o.res,
                      [kr EXCEPT !.sub_accounts[derivation] = o.acc],
                      o.count, o.ids)
          : o \in KeysAccountUpdate(kr.sub_accounts[derivation], name,
                                    details, assets, update_mode)}

\* ---------------------------------------------------------------- state
VARIABLES
    keyrings,   \* Vault.keyrings
    driver,     \* which Driver the vault owns: "file" or "delegated"
    backing,    \* what the backing store (the vault file) holds
    failures,   \* store calls that have failed so far
    last        \* the call being answered: its inputs, its result, the
                \* caller's decryption_key after it, the driver calls it
                \* made (stores, loads) and the secret-holding locals of
                \* the KeysAccount functions it ran; Idle between calls

vars == <<keyrings, driver, backing, failures, last>>

Idle == [op |-> "idle", res |-> "Ok"]

MaxStoreFailures == 1

\* ---------------------------------------------------------------- drivers
\* the backing store: the keyring sequence it decodes to, or content that
\* no longer decodes
Stored(accounts) == [intact |-> TRUE, data |-> accounts]
Broken == [intact |-> FALSE, data |-> <<>>]

\* FileDriver::store and DelegatedDriver::store: the results and the backing
\* store afterwards.  The file driver may fail before the truncation (store
\* untouched) or after it (store broken)
DriverStore(kind, store, accounts) ==
    IF kind = "delegated"
    THEN {[res |-> "Ok", backing |-> store]}
    ELSE {[res |-> "Ok", backing |-> Stored(accounts)],
          [res |-> "DriverError", backing |-> store],
          [res |-> "DriverError", backing |-> Broken]}

\* FileDriver::load and DelegatedDriver::load on a driver opened over the
\* same backing store
DriverLoad(kind, store) ==
    IF kind = "delegated" THEN [res |-> "Ok", val |-> <<>>]
    ELSE IF ~store.intact THEN [res |-> "DriverError", val |-> <<>>]
    ELSE [res |-> "Ok", val |-> store.data]

\* ------------------------------------------------------------------ vault
RECURSIVE TotalSubs(_)
TotalSubs(krs) ==
    IF Len(krs) = 0 THEN 0
    ELSE Cardinality(SubPaths(Head(krs))) + TotalSubs(Tail(krs))

\* keyring_by_id_mut taking the first keyring that holds an account with
\* that id, master or sub-account
KeyringById_AnyAccount(krs, key_id) ==
    LET hit == {i \in 1..Len(krs) : KeyringAccountById(krs[i], key_id) # {}}
    IN  IF hit = {} THEN 0 ELSE CHOOSE i \in hit : \A j \in hit : i <= j

\* Vault::keyring_by_id_mut: the index of the first keyring with that id
KeyringById(krs, key_id) ==
    LET hit == {i \in 1..Len(krs) :
                    AccIdentifier(krs[i].master_account) = key_id}
    IN  IF hit = {} THEN 0 ELSE CHOOSE i \in hit : \A j \in hit : i <= j

\* Vault::account_by_id: find_map over the keyrings
RECURSIVE FindAccount(_, _, _)
FindAccount(krs, key_id, i) ==
    IF i > Len(krs) THEN {}
    ELSE LET a == KeyringAccountById(krs[i], key_id)
         IN  IF a # {} THEN a ELSE FindAccount(krs, key_id, i + 1)

AccountById(krs, key_id) == FindAccount(krs, key_id, 1)

\* ids a client may ask for: every key of the model's universe, and one
\* that no account has
KeyIds ==
    {Identifier(Neuter(Xpriv(r, MasterPath))) : r \in 0..MaxKeyrings}
        \cup {Identifier(Neuter(Xpriv(1, <<0>>)))}

Init ==
    /\ keyrings = <<>>
    /\ driver \in {"file", "delegated"}
    /\ backing = Stored(<<>>)
    /\ failures = 0
    /\ last = Idle

\* the outcomes of driver.store the model follows: a failing store counts
\* against MaxStoreFailures
StoreOutcomes(accounts) ==
    {s \in DriverStore(driver, backing, accounts) :
        s.res = "Ok" \/ failures < MaxStoreFailures}

Failed(s) == IF s.res = "Ok" THEN 0 ELSE 1

\* seed putting the new keyring in front of the others
Seed_Prepends(name, encryption_key, blinding) ==
    /\ last = Idle
    /\ Len(keyrings) < MaxKeyrings
    /\ LET k == KeyringWith(name, "", encryption_key, Len(keyrings) + 1,
                            blinding)
           call == [op |-> "seed", enc |-> encryption_key,
                    before |-> keyrings, loads |-> 0,
                    locals |-> k.locals]
       IN  IF k.res # "Ok"
           THEN /\ last' = call @@ [res |-> k.res, stores |-> 0]
                /\ UNCHANGED <<keyrings, driver, backing, failures>>
           ELSE \E s \in StoreOutcomes(<<k.val>> \o keyrings) :
                /\ keyrings' = <<k.val>> \o keyrings
                /\ backing' = s.backing
                /\ failures' = failures + Failed(s)
                /\ last' = call @@ [res |-> s.res, stores |-> 1]
                /\ UNCHANGED driver

\* seed returning after the push, without the call of driver.store
Seed_NoStore(name, encryption_key, blinding) ==
    /\ last = Idle
    /\ Len(keyrings) < MaxKeyrings
    /\ LET k == KeyringWith(name, "", encryption_key, Len(keyrings) + 1,
                            blinding)
           call == [op |-> "seed", enc |-> encryption_key,
                    before |-> keyrings, loads |-> 0,
                    locals |-> k.locals]
       IN  IF k.res # "Ok"
           THEN /\ last' = call @@ [res |-> k.res, stores |-> 0]
                /\ UNCHANGED <<keyrings, driver, backing, failures>>
           ELSE /\ keyrings' = Append(keyrings, k.val)
                /\ last' = call @@ [res |-> "Ok", stores |-> 0]
                /\ UNCHANGED <<driver, backing, failures>>

\* Vault::seed, as rpc_seed_create calls it
Seed(name, encryption_key, blinding) ==
    /\ last = Idle
    /\ Len(keyrings) < MaxKeyrings
    /\ LET k == KeyringWith(name, "", encryption_key, Len(keyrings) + 1,
                            blinding)
           call == [op |-> "seed", enc |-> encryption_key,
                    before |-> keyrings, loads |-> 0,
                    locals |-> k.locals]
       IN  IF k.res # "Ok"
           THEN /\ last' = call @@ [res |-> k.res, stores |-> 0]
                /\ UNCHANGED <<keyrings, driver, backing, failures>>
           ELSE \E s \in StoreOutcomes(Append(keyrings, k.val)) :
                /\ keyrings' = Append(keyrings, k.val)
                /\ backing' = s.backing
                /\ failures' = failures + Failed(s)
                /\ last' = call @@ [res |-> s.res, stores |-> 1]
                /\ UNCHANGED driver

\* Vault::derive, as rpc_derive calls it
Derive(root, path, name, details, assets, decryption_key) ==
    /\ last = Idle
    /\ LET i == KeyringById(keyrings, root)
           call == [op |-> "derive", root |-> root, path |-> path,
                    keyIn |-> decryption_key, before |-> keyrings,
                    loads |-> 0]
       IN  IF i = 0
           THEN /\ last' = call @@ [res |-> "NotFound", stores |-> 0,
                                    keyOut |-> decryption_key,
                                    from |-> NoCandidate, locals |-> {}]
                /\ UNCHANGED <<keyrings, driver, backing, failures>>
           ELSE \E o \in CreateAccount(keyrings[i], path, name, details,
                                       assets, decryption_key) :
                IF o.res # "Ok"
                THEN /\ last' = call @@ [res |-> o.res, stores |-> 0,
                                         keyOut |-> o.key, from |-> o.from,
                                         locals |-> o.locals]
                     /\ UNCHANGED <<keyrings, driver, backing, failures>>
                ELSE /\ TotalSubs(keyrings) < MaxSubs
                     /\ LET krs == [keyrings EXCEPT ![i] = o.kr]
                        IN  \E s \in StoreOutcomes(krs) :
                            /\ keyrings' = krs
                            /\ backing' = s.backing
                            /\ failures' = failures + Failed(s)
                            /\ last' = call @@ [res |-> s.res, stores |-> 1,
                                                keyOut |-> o.key,
                                                from |-> o.from,
                                                locals |-> o.locals]
                            /\ UNCHANGED driver

\* AccountInfo::from(&KeysAccount)
AccountInfoOf(acc) ==
    [id          |-> AccIdentifier(acc),
     name        |-> acc.name,
     details     |-> IF acc.details = "" THEN "None" ELSE acc.details,
     key_id      |-> AccIdentifier(acc),
     fingerprint |-> AccFingerprint(acc),
     assets      |-> acc.assets,
     key_source  |-> <<"None">>]

\* list leaving the key_source of the sub-accounts as From<&KeysAccount>
\* set it
ListOf_Unannotated(krs) ==
    LET masters == [i \in 1..Len(krs) |->
                      [AccountInfoOf(krs[i].master_account)
                          EXCEPT !.key_source = <<krs[i].key_source>>]]
        subs(i) == LET ps == SortedPaths(SubPaths(krs[i]))
                   IN  [j \in 1..Len(ps) |->
                          AccountInfoOf(krs[i].sub_accounts[ps[j]])]
        F[i \in 0..Len(krs)] == IF i = 0 THEN <<>> ELSE F[i - 1] \o subs(i)
    IN  masters \o F[Len(krs)]

\* what Vault::list returns
ListOf(krs) ==
    LET masters == [i \in 1..Len(krs) |->
                      [AccountInfoOf(krs[i].master_account)
                          EXCEPT !.key_source = <<krs[i].key_source>>]]
        subs(i) == LET ps == SortedPaths(SubPaths(krs[i]))
                   IN  [j \in 1..Len(ps) |->
                          [AccountInfoOf(krs[i].sub_accounts[ps[j]])
                              EXCEPT !.key_source =
                                 <<AccFingerprint(krs[i].master_account),
                                   ps[j]>>]]
        F[i \in 0..Len(krs)] == IF i = 0 THEN <<>> ELSE F[i - 1] \o subs(i)
    IN  masters \o F[Len(krs)]

\* list persisting the keyrings it has listed
List_Storing ==
    /\ last = Idle
    /\ \E s \in StoreOutcomes(keyrings) :
          /\ backing' = s.backing
          /\ failures' = failures + Failed(s)
          /\ last' = [op |-> "list", res |-> s.res, stores |-> 1,
                      loads |-> 0, ret |-> ListOf(keyrings)]
    /\ UNCHANGED <<keyrings, driver>>

\* Vault::list
List ==
    /\ last = Idle
    /\ last' = [op |-> "list", res |-> "Ok", stores |-> 0, loads |-> 0,
                ret |-> ListOf(keyrings)]
    /\ UNCHANGED <<keyrings, driver, backing, failures>>

\* Vault::xpub
Xpub(id) ==
    /\ last = Idle
    /\ LET a == AccountById(keyrings, id)
       IN  last' = [op |-> "xpub", id |-> id, stores |-> 0, loads |-> 0,
                    on |-> a,
                    res |-> IF a = {} THEN "NotFound" ELSE "Ok",
                    ret |-> {acc.xpubkey : acc \in a}]
    /\ UNCHANGED <<keyrings, driver, backing, failures>>

\* the common shape of xpriv, sign_key and sign_data: find the account, run
\* the account method on it
OnAccount(op, id, decryption_key, Method(_)) ==
    /\ last = Idle
    /\ LET a == AccountById(keyrings, id)
           call == [op |-> op, id |-> id, keyIn |-> decryption_key,
                    stores |-> 0, loads |-> 0, on |-> a]
       IN  IF a = {}
           THEN last' = call @@ [res |-> "NotFound", ret |-> {},
                                 keyOut |-> decryption_key, locals |-> {}]
           ELSE \E acc \in a : \E o \in Method(acc) :
                last' = call @@ [res |-> o.res, keyOut |-> o.key,
                                 locals |-> o.locals,
                                 ret |-> IF o.res = "Ok" THEN {o.val} ELSE {}]
    /\ UNCHANGED <<keyrings, driver, backing, failures>>

\* Vault::xpriv
XprivOp(id, decryption_key) ==
    LET M(acc) == Xprivkey(acc, decryption_key)
    IN  OnAccount("xpriv", id, decryption_key, M)

\* sha256 of the 33-byte public key, and of a byte string
KeyDigest(acc) == <<"sha256", acc.xpubkey>>
DataDigest(data) == <<"sha256", data>>

\* Vault::sign_key
SignKey(id, decryption_key) ==
    LET M(acc) == SignDigest(acc, KeyDigest(acc), decryption_key)
    IN  OnAccount("sign_key", id, decryption_key, M)

\* Vault::sign_data
SignData(id, data, decryption_key) ==
    LET M(acc) == SignDigest(acc, DataDigest(data), decryption_key)
    IN  OnAccount("sign_data", id, decryption_key, M)

\* ------------------------------------------------------------- sign_psbt
\* A PSBT: the previous_output.vout of each input of the unsigned
\* transaction, and the PSBT inputs.  A public key of a bip32_derivation map
\* is a number; the map iterates in key order.

NoUtxo == [some |-> FALSE, outputs |-> 0]
Utxo(n) == [some |-> TRUE, outputs |-> n]

PsbtInput(derivs, utxo) ==
    [bip32_derivation |-> derivs,
     non_witness_utxo |-> utxo,
     partial_sigs     |-> <<>>,
     sighash_type     |-> "None"]

Psbt(vouts, inputs) == [tx_input |-> vouts, inputs |-> inputs]

\* the first keyring that holds an account, master or sub-account, with
\* the given fingerprint
KeyringByFingerprint_AnyAccount(krs, fingerprint) ==
    LET hit == {i \in 1..Len(krs) :
                   \/ AccFingerprint(krs[i].master_account) = fingerprint
                   \/ \E p \in SubPaths(krs[i]) :
                         AccFingerprint(krs[i].sub_accounts[p]) = fingerprint}
    IN  IF hit = {} THEN 0 ELSE CHOOSE i \in hit : \A j \in hit : i <= j

\* the first keyring whose master fingerprint is the given one (0: none)
KeyringByFingerprint(krs, fingerprint) ==
    LET hit == {i \in 1..Len(krs) :
                    AccFingerprint(krs[i].master_account) = fingerprint}
    IN  IF hit = {} THEN 0 ELSE CHOOSE i \in hit : \A j \in hit : i <= j

\* Transaction::signature_hash of input index over the script of the
\* consumed output
SigHash(index, vout) == <<"sighash", index, vout, "ALL">>

\* the (input index, public key) pairs in the order the two loops of
\* sign_psbt visit them; indexes are 0-based as in the code
RECURSIVE Ascending(_)
Ascending(S) ==
    IF S = {} THEN <<>>
    ELSE LET m == CHOOSE x \in S : \A y \in S : x <= y
         IN  <<m>> \o Ascending(S \ {m})

RECURSIVE Visits(_, _)
Visits(inputs, i) ==
    IF i > Len(inputs) THEN <<>>
    ELSE LET pks == Ascending(DOMAIN inputs[i].bip32_derivation)
         IN  [j \in 1..Len(pks) |-> <<i - 1, pks[j]>>]
                \o Visits(inputs, i + 1)

PsbtOutcome(res, psbt, key) == [res |-> res, psbt |-> psbt, key |-> key]

\* one iteration of the inner loop, from the PSBT and the decryption_key as
\* the earlier iterations left them
SignEntry(krs, psbt, key, index, pubkey) ==
    LET inp == psbt.inputs[index + 1]
        entry == inp.bip32_derivation[pubkey]
        k == KeyringByFingerprint(krs, entry.fp)
    IN  IF k = 0 THEN {PsbtOutcome("Ok", psbt, key)}
        ELSE {IF x.res # "Ok" THEN PsbtOutcome(x.res, psbt, x.key)
              ELSE IF ~inp.non_witness_utxo.some
              THEN PsbtOutcome("Transport", psbt, x.key)
              ELSE IF index >= Len(psbt.tx_input)
              THEN PsbtOutcome("Panic", psbt, x.key)
              ELSE IF psbt.tx_input[index + 1] >= inp.non_witness_utxo.outputs
              THEN PsbtOutcome("Panic", psbt, x.key)
              ELSE LET xpriv == DerivePriv(x.val, entry.der)
                       sig == Signature(SigHash(index,
                                  psbt.tx_input[index + 1]), xpriv)
                   IN  PsbtOutcome("Ok",
                         [psbt EXCEPT !.inputs[index + 1] =
                            [inp EXCEPT
                               !.sighash_type = "All",
                               !.partial_sigs =
                                  (pubkey :> sig) @@ inp.partial_sigs]],
                         x.key)
              : x \in Xprivkey(krs[k].master_account, key)}

RECURSIVE SignFrom(_, _, _, _)
SignFrom(krs, visits, psbt, key) ==
    IF Len(visits) = 0 THEN {PsbtOutcome("Ok", psbt, key)}
    ELSE UNION {
           IF o.res # "Ok" THEN {o}
           ELSE SignFrom(krs, Tail(visits), o.psbt, o.key)
           : o \in SignEntry(krs, psbt, key, Head(visits)[1], Head(visits)[2])}

\* what Vault::sign_psbt does with a PSBT
SignPsbtOf(krs, psbt, decryption_key) ==
    SignFrom(krs, Visits(psbt.inputs, 1), psbt, decryption_key)

\* Vault::sign_psbt
SignPsbt(psbt, decryption_key) ==
    /\ last = Idle
    /\ \E o \in SignPsbtOf(keyrings, psbt, decryption_key) :
          last' = [op |-> "sign_psbt", psbt |-> psbt,
                   keyIn |-> decryption_key, keyOut |-> o.key,
                   stores |-> 0, loads |-> 0, res |-> o.res,
                   ret |-> IF o.res = "Ok" THEN {o.psbt} ELSE {}]
    /\ UNCHANGED <<keyrings, driver, backing, failures>>

\* the PSBTs a client sends
MasterFp(r) == Fingerprint(Neuter(Xpriv(r, MasterPath)))
SubFp == Fingerprint(Neuter(Xpriv(1, <<0>>)))
UnknownFp == Fingerprint(Neuter(GarbageXpriv))

Entry(fp) == [fp |-> fp, der |-> <<0>>]

DerivMaps ==
    {<<>>, <<Entry(UnknownFp)>>, <<Entry(SubFp)>>,
     <<Entry(MasterFp(1)), Entry(MasterFp(1))>>}
        \cup {<<Entry(MasterFp(r))>> : r \in 1..MaxKeyrings}

PsbtPool ==
    {Psbt(<<0>>, <<PsbtInput(d, u)>>) : d \in DerivMaps, u \in {NoUtxo, Utxo(1)}}
      \cup {Psbt(v, <<PsbtInput(<<Entry(MasterFp(1))>>, Utxo(1))>>)
            : v \in {<<>>, <<1>>}}
      \cup {Psbt(<<0, 0>>, <<PsbtInput(d1[1], d1[2]), PsbtInput(d2[1], d2[2])>>)
            : d1, d2 \in {<<<<Entry(MasterFp(1))>>, Utxo(1)>>,
                          <<<<Entry(MasterFp(1))>>, NoUtxo>>,
                          <<<<Entry(UnknownFp)>>, NoUtxo>>}}

\* Runtime::rpc_process on bytes the unmarshaller rejects: no vault method
\* is called
Undecodable ==
    /\ last = Idle
    /\ last' = [op |-> "decode", res |-> "PresentationError", stores |-> 0,
                loads |-> 0]
    /\ UNCHANGED <<keyrings, driver, backing, failures>>

\* Reply::from(err): Failure with code 0 and the error as format!("{}")
\* prints it
DisplayOf(err) == <<"display", err>>
FailureOf(err) == [type |-> "Failure", code |-> 0, info |-> DisplayOf(err),
                   body |-> {}]

\* the Reply variant each rpc_* handler wraps a success in
ReplyTypes ==
    [seed |-> "Success", list |-> "Keylist", derive |-> "AccountInfo",
     xpub |-> "XPub", xpriv |-> "XPriv", sign_psbt |-> "Psbt",
     sign_key |-> "Signature", sign_data |-> "Signature"]

\* the reply rpc_process hands to Runtime::run for a call: what the handler
\* returned, or the error turned into a Failure
ReplyOf(call, krs) ==
    IF call.res # "Ok" THEN FailureOf(call.res)
    ELSE [type |-> ReplyTypes[call.op], code |-> 0, info |-> DisplayOf("Ok"),
          body |-> CASE call.op = "seed" -> {}
                     [] call.op = "derive" ->
                          {AccountInfoOf(
                              krs[KeyringById(krs, call.root)]
                                 .sub_accounts[call.path])}
                     [] call.op = "list" -> {call.ret}
                     [] OTHER -> call.ret]

\* reply.encode(): the type id of the variant, then its fields as they are
EncodeReply(reply) ==
    [type_id |-> reply.type,
     payload |-> IF reply.type = "Failure"
                 THEN {<<reply.code, reply.info>>} ELSE reply.body]

\* {:?} of a reply: the variant and its fields, a private key printed as
\* the text "[private key data]"
DebugReply(reply) ==
    [variant |-> reply.type,
     fields  |-> IF reply.type = "Failure"
                 THEN {<<reply.code, reply.info>>}
                 ELSE IF reply.type = "XPriv"
                 THEN {[private_key |-> "[private key data]",
                        path |-> x.path] : x \in reply.body}
                 ELSE reply.body]

\* what the daemon logs for a call: the type id of the request, the
\* accounts FileDriver::store is given, the reply it prepares
LogLines(call, krs) ==
    <<[line |-> "Received ZMQ RPC request", arg |-> call.op],
      [line |-> "Current vault data",
       arg  |-> IF call.stores = 1 /\ driver = "file" THEN krs ELSE <<>>],
      [line |-> "Preparing ZMQ RPC reply",
       arg  |-> DebugReply(ReplyOf(call, krs))]>>

\* Runtime::run sends the reply and awaits the next request; a panic ends
\* the process instead
Reply ==
    /\ last # Idle
    /\ last.res # "Panic"
    /\ last' = Idle
    /\ UNCHANGED <<keyrings, driver, backing, failures>>

\* root ids a client may name in Derive: the keyring masters, and the id of
\* a sub-account
DeriveRoots ==
    {Identifier(Neuter(Xpriv(r, MasterPath))) : r \in 1..MaxKeyrings}
        \cup {Identifier(Neuter(Xpriv(1, <<0>>)))}

Next ==
    \/ \E d \in Keys, b \in RngScalars : Seed("n1", PubOf(d), b)
    \/ \E id \in DeriveRoots, p \in Paths, d \in Keys :
          Derive(id, p, "n1", "", {1}, d)
    \/ List
    \/ \E id \in KeyIds : Xpub(id)
    \/ \E id \in KeyIds, d \in Keys : XprivOp(id, d)
    \/ \E id \in KeyIds, d \in Keys : SignKey(id, d)
    \/ \E id \in KeyIds, d \in Keys : SignData(id, "data", d)
    \/ \E p \in PsbtPool, d \in Keys : SignPsbt(p, d)
    \/ Undecodable
    \/ Reply

Spec == Init /\ [][Next]_vars

\* ------------------------------------------------- the Keyring API alone
\* A program that owns one Keyring (as the examples of keymgm.rs do) and
\* calls its public methods.  keyrings holds that keyring; no driver.
MaxKrSubs == 1

InitKeyring ==
    /\ \E d \in Keys, b \in Blindings :
          keyrings = <<KeyringWith("n1", "", PubOf(d), 1, b).val>>
    /\ driver = "none"
    /\ backing = Stored(<<>>)
    /\ failures = 0
    /\ last = Idle

\* Keyring::create_account
KrCreateAccount(path, assets, decryption_key) ==
    /\ last = Idle
    /\ \E o \in CreateAccount(keyrings[1], path, "n1", "", assets,
                              decryption_key) :
          /\ o.res = "Ok" => Cardinality(SubPaths(keyrings[1])) < MaxKrSubs
          /\ keyrings' = <<o.kr>>
          /\ last' = [op |-> "create_account", path |-> path,
                      assets |-> assets, keyIn |-> decryption_key,
                      keyOut |-> o.key, res |-> o.res, from |-> o.from,
                      locals |-> o.locals, before |-> keyrings[1]]
    /\ UNCHANGED <<driver, backing, failures>>

\* Keyring::update_master
KrUpdateMaster(name, details) ==
    /\ last = Idle
    /\ \E o \in UpdateMasterOf(keyrings[1], name, details) :
          /\ keyrings' = <<o.kr>>
          /\ last' = [op |-> "update_master", name |-> name,
                      details |-> details, res |-> o.res,
                      before |-> keyrings[1]]
    /\ UNCHANGED <<driver, backing, failures>>

\* Keyring::update_subaccount
KrUpdateSubaccount(path, name, details, assets, update_mode) ==
    /\ last = Idle
    /\ \E o \in UpdateSubaccountOf(keyrings[1], path, name, details, assets,
                                   update_mode) :
          /\ keyrings' = <<o.kr>>
          /\ last' = [op |-> "update_subaccount", path |-> path,
                      name |-> name, details |-> details, assets |-> assets,
                      mode |-> update_mode, res |-> o.res, count |-> o.count,
                      ids |-> o.ids, before |-> keyrings[1]]
    /\ UNCHANGED <<driver, backing, failures>>

NameUpdates == {None, Some("n2")}
DetailUpdates == {None, Some("d2")}
AssetUpdates == {None} \cup {Some(S) : S \in SUBSET AssetIds}

NextKeyring ==
    \/ \E p \in Paths, a \in SUBSET AssetIds, d \in Keys :
          KrCreateAccount(p, a, d)
    \/ \E n \in NameUpdates, t \in DetailUpdates : KrUpdateMaster(n, t)
    \/ \E p \in Paths, n \in NameUpdates, t \in DetailUpdates,
          a \in AssetUpdates, m \in UpdateModes :
          KrUpdateSubaccount(p, n, t, a, m)
    \/ Reply

SpecKeyring == InitKeyring /\ [][NextKeyring]_vars


\* ------------------------------------------------- the file driver alone
\* A program that opens a FileDriver on one location and calls init, load
\* and store, dropping the driver and opening it again as a restarted
\* daemon does.  Here backing is the file at config.location (whether it
\* exists, its content), driver is the FileDriver (whether it is open, the
\* configured format, the cursor of fd), keyrings is the sequence handed to
\* the last store that returned success, and failures counts the stores
\* that returned an error.
Formats == {"StrictEncoded", "Yaml", "Toml", "Json"}

\* The content of the file is a sequence of tokens: a length prefix, the
\* brackets of a text format, one token per keyring, and the zero bytes a
\* write past the end of the file leaves behind.
Tok(kind, val) == [kind |-> kind, val |-> val]
LenPrefix(n) == Tok("len", [n |-> n])
OpenSeq == Tok("open", [n |-> 0])
CloseSeq == Tok("close", [n |-> 0])
ZeroByte == Tok("zero", [n |-> 0])
Item(kr) == Tok("item", kr)

Items(accounts) == [i \in 1..Len(accounts) |-> Item(accounts[i])]

\* what the serializer of a format writes for a keyring sequence:
\* strict_encode writes the number of elements and then the elements, the
\* text formats write a bracketed sequence
Encode(format, accounts) ==
    IF format = "StrictEncoded"
    THEN <<LenPrefix(Len(accounts))>> \o Items(accounts)
    ELSE <<OpenSeq>> \o Items(accounts) \o <<CloseSeq>>

\* the results of the serializer call of store.  toml::to_vec is given a
\* sequence where TOML has a table at the top of a document: it returns
\* an error, or text that is no TOML document
EncodeResults(format, accounts) ==
    IF format = "Toml"
    THEN {[ok |-> TRUE, data |-> Encode(format, accounts)],
          [ok |-> FALSE, data |-> <<>>]}
    ELSE {[ok |-> TRUE, data |-> Encode(format, accounts)]}

AllItems(bytes, from, to) == \A i \in from..to : bytes[i].kind = "item"
ItemsAt(bytes, from, n) == [i \in 1..n |-> bytes[from + i - 1].val]

DecodeError(read) == [res |-> "DriverError", val |-> <<>>, read |-> read]

\* what the deserializer of a format makes of the content read from the
\* start of the file, and how many tokens it has read.  strict_decode reads
\* the elements the length prefix announces and no further; the readers of
\* the text formats read to the end of the file and accept nothing after
\* the value; toml::from_slice parses a document, which is a table, and
\* a table is not a Vec<Keyring>
Decode(format, bytes) ==
    IF format = "StrictEncoded"
    THEN IF /\ Len(bytes) >= 1
            /\ bytes[1].kind = "len"
            /\ Len(bytes) >= 1 + bytes[1].val.n
            /\ AllItems(bytes, 2, 1 + bytes[1].val.n)
         THEN [res |-> "Ok", val |-> ItemsAt(bytes, 2, bytes[1].val.n),
               read |-> 1 + bytes[1].val.n]
         ELSE DecodeError(IF Len(bytes) = 0 THEN 0 ELSE 1)
    ELSE IF format = "Toml" THEN DecodeError(Len(bytes))
    ELSE IF /\ Len(bytes) >= 2
            /\ bytes[1].kind = "open"
            /\ bytes[Len(bytes)].kind = "close"
            /\ AllItems(bytes, 2, Len(bytes) - 1)
         THEN [res |-> "Ok", val |-> ItemsAt(bytes, 2, Len(bytes) - 2),
               read |-> Len(bytes)]
         ELSE DecodeError(Len(bytes))

\* fd.seek(SeekFrom::Start(0)) and fd.set_len(0)
SeekStart(pos) == 0
SetLen(bytes, n) == SubSeq(bytes, 1, n)

\* a write of data at the cursor: it overwrites what is there, extends the
\* file, and leaves zero bytes between the old end and a cursor beyond it
WriteAt(bytes, pos, data) ==
    IF pos >= Len(bytes)
    THEN bytes \o [i \in 1..(pos - Len(bytes)) |-> ZeroByte] \o data
    ELSE SubSeq(bytes, 1, pos) \o data
            \o SubSeq(bytes, pos + Len(data) + 1, Len(bytes))

FileOutcome(res, bytes, pos) == [res |-> res, bytes |-> bytes, pos |-> pos]

\* FileDriver::store: the results, with the content of the file and the
\* cursor afterwards.  The seek or the truncation may fail (the content is
\* as it was), the serializer may fail (the file is already empty), and
\* the write may stop after any part of the data
FileStoreOf(format, bytes, pos, accounts) ==
    LET at == SeekStart(pos)
        cut == SetLen(bytes, 0)
    IN  {FileOutcome("DriverError", bytes, pos),
         FileOutcome("DriverError", bytes, at)}
          \cup UNION {
                 IF ~e.ok THEN {FileOutcome("DriverError", cut, at)}
                 ELSE {FileOutcome("Ok", WriteAt(cut, at, e.data),
                                   at + Len(e.data))}
                        \cup {FileOutcome("DriverError",
                                 WriteAt(cut, at, SubSeq(e.data, 1, n)),
                                 at + n)
                              : n \in 0..(Len(e.data) - 1)}
                 : e \in EncodeResults(format, accounts)}

\* FileDriver::load: seek to the start, then deserialize
FileLoadOf(format, bytes, pos) ==
    LET d == Decode(format, SubSeq(bytes, SeekStart(pos) + 1, Len(bytes)))
    IN  [d EXCEPT !.read = SeekStart(pos) + @]

\* the keyring sequences the program stores
PoolKeyring(seed) == KeyringWith("n1", "", PubOf(1), seed, 1).val
KeyringPool == {<<>>, <<PoolKeyring(1)>>, <<PoolKeyring(1), PoolKeyring(2)>>}

NoFile == [exists |-> FALSE, bytes |-> <<>>]
FileOf(bytes) == [exists |-> TRUE, bytes |-> bytes]

\* the location holds no file, or the file a run of the program with the
\* same configuration has left
InitFile ==
    /\ \E f \in Formats :
          driver = [open |-> FALSE, format |-> f, pos |-> 0]
    /\ \E K \in KeyringPool :
          /\ backing \in {NoFile, FileOf(Encode(driver.format, K))}
          /\ keyrings = IF backing.exists THEN K ELSE <<>>
    /\ failures = 0
    /\ last = Idle

StoreResultsFollowed(accounts) ==
    {s \in FileStoreOf(driver.format, backing.bytes, driver.pos, accounts) :
        s.res = "Ok" \/ failures < MaxStoreFailures}

\* FileDriver::init
FileDriverInit ==
    /\ last = Idle
    /\ ~driver.open
    /\ IF backing.exists
       THEN /\ driver' = [driver EXCEPT !.open = TRUE, !.pos = 0]
            /\ last' = [op |-> "init", res |-> "Ok", before |-> backing]
            /\ UNCHANGED <<keyrings, backing, failures>>
       ELSE \E s \in FileStoreOf(driver.format, <<>>, 0, <<>>) :
            /\ s.res = "Ok" \/ failures < MaxStoreFailures
            /\ backing' = FileOf(s.bytes)
            /\ driver' = [driver EXCEPT !.open = (s.res = "Ok"),
                                        !.pos = s.pos]
            /\ keyrings' = IF s.res = "Ok" THEN <<>> ELSE keyrings
            /\ failures' = failures + Failed(s)
            /\ last' = [op |-> "init", res |-> s.res, before |-> backing]

\* FileDriver::load
FileDriverLoad ==
    /\ last = Idle
    /\ driver.open
    /\ LET d == FileLoadOf(driver.format, backing.bytes, driver.pos)
       IN  /\ driver' = [driver EXCEPT !.pos = d.read]
           /\ last' = [op |-> "load", res |-> d.res, ret |-> d.val,
                       before |-> backing]
    /\ UNCHANGED <<keyrings, backing, failures>>

\* FileDriver::store
FileDriverStore(accounts) ==
    /\ last = Idle
    /\ driver.open
    /\ \E s \in StoreResultsFollowed(accounts) :
          /\ backing' = FileOf(s.bytes)
          /\ driver' = [driver EXCEPT !.pos = s.pos]
          /\ keyrings' = IF s.res = "Ok" THEN accounts ELSE keyrings
          /\ failures' = failures + Failed(s)
          /\ last' = [op |-> "store", res |-> s.res, arg |-> accounts,
                      before |-> backing, stored |-> keyrings]

\* the FileDriver is dropped, which closes fd
FileDriverDrop ==
    /\ last = Idle
    /\ driver.open
    /\ driver' = [driver EXCEPT !.open = FALSE, !.pos = 0]
    /\ UNCHANGED <<keyrings, backing, failures, last>>

NextFile ==
    \/ FileDriverInit
    \/ FileDriverLoad
    \/ \E K \in KeyringPool : FileDriverStore(K)
    \/ FileDriverDrop
    \/ Reply

SpecFile == InitFile /\ [][NextFile]_vars


\* ================================================================ claims
\* the keyring a Derive call named, in the vault as it was before the call
DeriveTarget == KeyringById(last.before, last.root)

\* C1: after a seed or derive that returned success, load() on a fresh
\* driver over the same backing store returns the vault's keyring sequence,
\* for the file driver and for the delegated driver.
C1_LoadReturnsStored ==
    (last.op \in {"seed", "derive"} /\ last.res = "Ok")
        => DriverLoad(driver, backing) = [res |-> "Ok", val |-> keyrings]

\* C2: when driver.store fails inside seed or derive, the method returns the
\* error and the in-memory keyring sequence is what it was before the call.
C2_FailedStoreKeepsMemory ==
    (last.op \in {"seed", "derive"} /\ last.res = "DriverError")
        => keyrings = last.before

\* C3: after every vault method that takes a decryption_key, whatever its
\* outcome, the caller's decryption_key differs from its value before.
C3_KeyAlwaysWiped ==
    last.op \in {"derive", "xpriv", "sign_psbt", "sign_key", "sign_data"}
        => last.keyOut # last.keyIn

\* C4: no public vault operation panics; every failure is an error value.
C4_NoPanic == last.res # "Panic"

\* C5: a derive on the master path or on a path already in sub_accounts
\* fails with DerivationAlreadyUsed, changes no keyring and does not call
\* store; the master path is never a key of sub_accounts and no existing
\* sub-account is overwritten.
C5_UsedPathRejected ==
    /\ \A i \in 1..Len(keyrings) : <<>> \notin DOMAIN keyrings[i].sub_accounts
    /\ (last.op = "derive" /\ DeriveTarget # 0) =>
         LET old == last.before[DeriveTarget]
         IN  /\ (last.path = <<>> \/ last.path \in DOMAIN old.sub_accounts)
                  => /\ last.res = "DerivationAlreadyUsed"
                     /\ keyrings = last.before
                     /\ last.stores = 0
             /\ \A p \in DOMAIN old.sub_accounts :
                   /\ p \in DOMAIN keyrings[DeriveTarget].sub_accounts
                   /\ keyrings[DeriveTarget].sub_accounts[p]
                         = old.sub_accounts[p]

C5_Witness ==
    /\ last.op = "derive"
    /\ last.res = "DerivationAlreadyUsed"
    /\ last.path # <<>>
    /\ last.keyIn = 1

\* the stored paths that are strict prefixes of a target, the target's own
\* path excluded
AncestorsOf(kr, target) ==
    {p \in {<<>>} \cup DOMAIN kr.sub_accounts :
        Len(p) < Len(target) /\ p = SubSeq(target, 1, Len(p))}

\* C6: create_account derives the new account from the existing account
\* whose path is the longest strict prefix of the target, along the target
\* minus that prefix.
C6_NearestAncestor ==
    (last.op = "derive" /\ last.stores = 1) =>
        LET anc == AncestorsOf(last.before[DeriveTarget], last.path)
        IN  /\ last.from.path \in anc
            /\ \A p \in anc : Len(p) <= Len(last.from.path)
            /\ last.from.rel =
                  SubSeq(last.path, Len(last.from.path) + 1, Len(last.path))

\* C7: every sub-account stored under path p holds the extended public key
\* of the BIP32 derivation of its keyring's master key along the whole of
\* p, and xpub(id) returns that key.
C7_SubAccountKeyFollowsPath ==
    /\ \A i \in 1..Len(keyrings) :
         \A p \in DOMAIN keyrings[i].sub_accounts :
            keyrings[i].sub_accounts[p].xpubkey =
               <<"xpub", keyrings[i].master_account.encrypted.plain.root, p>>
    /\ (last.op = "xpub" /\ last.res = "Ok") =>
         \A i \in 1..Len(keyrings) :
            \A p \in DOMAIN keyrings[i].sub_accounts :
               last.id = <<"id", keyrings[i].master_account.xpubkey[2], p>>
                  => last.ret = {keyrings[i].sub_accounts[p].xpubkey}

C7_Witness ==
    /\ last.op = "xpub"
    /\ last.res = "Ok"
    /\ \E i \in 1..Len(keyrings) :
          /\ <<0>> \in DOMAIN keyrings[i].sub_accounts
          /\ last.id = AccIdentifier(keyrings[i].sub_accounts[<<0>>])
          /\ \E p \in DOMAIN keyrings[i].sub_accounts : Len(p) = 2 /\ p[1] = 0

\* decryption of an account under scalar d gives an extended private key
\* whose neutered form is the account's xpubkey
DecryptsTo(acc, d) ==
    \A o \in ElgamalDecrypt(acc.encrypted, d, acc.unblinding) :
        o.kind = "xpriv" /\ Neuter(o.data) = acc.xpubkey

\* C8: the account a seed creates under G*d, and the account a derive
\* creates when called with decryption key d, decrypt under d and their
\* own unblinding key to a private key that neuters to their xpubkey.
C8_CreatedAccountDecrypts ==
    /\ (last.op = "seed" /\ last.stores = 1) =>
          \A d \in Keys :
             PubOf(d) = last.enc =>
                DecryptsTo(keyrings[Len(keyrings)].master_account, d)
    /\ (last.op = "derive" /\ last.stores = 1) =>
          DecryptsTo(keyrings[DeriveTarget].sub_accounts[last.path],
                     last.keyIn)

C8_Witness ==
    /\ last.op = "derive"
    /\ last.res = "Ok"
    /\ Len(last.path) = 2
    /\ last.from.path # <<>>


\* the (input, public key) pairs of a PSBT whose fingerprint is that of a
\* keyring master; inputs are numbered from 1 here
MatchingPairs(krs, psbt) ==
    {q \in {<<i, pk>> : i \in 1..Len(psbt.inputs), pk \in 1..2} :
        /\ q[2] \in DOMAIN psbt.inputs[q[1]].bip32_derivation
        /\ \E k \in 1..Len(krs) :
              psbt.inputs[q[1]].bip32_derivation[q[2]].fp
                 = <<"fp", krs[k].master_account.xpubkey[2], <<>>>>}

\* the keyring a fingerprint names
MasterOf(krs, fp) ==
    krs[CHOOSE k \in 1..Len(krs) :
           fp = <<"fp", krs[k].master_account.xpubkey[2], <<>>>>].master_account

\* C9: sign_psbt on a PSBT with k >= 1 matching pairs, every matching input
\* carrying a usable non_witness_utxo and the caller's key being the one the
\* matched masters are encrypted to, succeeds with a partial signature under
\* each pair's pubkey, made with the key derived from the decrypted master,
\* and sighash_type ALL on each such input.
C9_SignsEveryMatch ==
    (last.op = "sign_psbt") =>
      LET psbt == last.psbt
          pairs == MatchingPairs(keyrings, psbt)
          wellFormed ==
            \A q \in pairs :
               LET inp == psbt.inputs[q[1]]
               IN  /\ inp.non_witness_utxo.some
                   /\ q[1] <= Len(psbt.tx_input)
                   /\ psbt.tx_input[q[1]] < inp.non_witness_utxo.outputs
                   /\ MasterOf(keyrings, inp.bip32_derivation[q[2]].fp)
                         .encrypted.to = <<"G", last.keyIn>>
      IN  (pairs # {} /\ wellFormed) =>
            /\ last.res = "Ok"
            /\ \A out \in last.ret : \A q \in pairs :
                 LET inp == out.inputs[q[1]]
                     entry == psbt.inputs[q[1]].bip32_derivation[q[2]]
                     master == MasterOf(keyrings, entry.fp)
                 IN  /\ inp.sighash_type = "All"
                     /\ q[2] \in DOMAIN inp.partial_sigs
                     /\ inp.partial_sigs[q[2]] =
                          <<"sig",
                            <<"sighash", q[1] - 1, psbt.tx_input[q[1]], "ALL">>,
                            [root |-> master.encrypted.plain.root,
                             path |-> entry.der]>>

\* C10: update in mode RemoveOrFail, asked to remove at least one id, fails with AssetIds(missing ids) and
\* leaves the account unchanged when a requested id is missing, and removes
\* all requested ids and succeeds when every requested id is present.
C10_RemoveOrFail ==
    (/\ last.op = "update_subaccount"
     /\ last.mode = "RemoveOrFail"
     /\ last.assets # <<>>
     /\ last.assets # <<{}>>
     /\ last.path \in DOMAIN last.before.sub_accounts) =>
        LET A == last.before.sub_accounts[last.path].assets
            S == last.assets[1]
        IN  IF S \ A # {}
            THEN /\ last.res = "AssetIds"
                 /\ last.ids = S \ A
                 /\ keyrings[1].sub_accounts[last.path].assets = A
            ELSE /\ last.res = "Ok"
                 /\ keyrings[1].sub_accounts[last.path].assets = A \ S

\* the account an update_subaccount call named, before and after the call
UpdatedBefore == last.before.sub_accounts[last.path]
UpdatedAfter == keyrings[1].sub_accounts[last.path]
UpdateOnExisting ==
    /\ last.op = "update_subaccount"
    /\ last.path \in DOMAIN last.before.sub_accounts

\* C11: update with assets = Some(S) on an account whose asset set is A
\* succeeds and ends with A union S in mode Add, S in mode Replace and
\* A minus S in mode RemoveIgnore; with assets = None the asset set is
\* unchanged whatever the mode.
C11_AssetModes ==
    UpdateOnExisting =>
        LET A == UpdatedBefore.assets
        IN  IF last.assets = <<>>
            THEN UpdatedAfter.assets = A
            ELSE LET S == last.assets[1]
                 IN  /\ last.mode = "Add" =>
                           last.res = "Ok" /\ UpdatedAfter.assets = A \cup S
                     /\ last.mode = "Replace" =>
                           last.res = "Ok" /\ UpdatedAfter.assets = S
                     /\ last.mode = "RemoveIgnore" =>
                           last.res = "Ok" /\ UpdatedAfter.assets = A \ S

C11_Witness ==
    /\ UpdateOnExisting
    /\ last.mode = "RemoveIgnore"
    /\ last.assets # <<>>
    /\ last.assets[1] \ UpdatedBefore.assets # {}
    /\ last.assets[1] \cap UpdatedBefore.assets # {}
    /\ last.res = "Ok"

\* C12: a successful update returns the number of asset ids the call added
\* to or removed from the account's asset set, zero when it added and
\* removed none (stated for the modes Add, Replace and RemoveIgnore).
C12_CountIsIdsChanged ==
    (UpdateOnExisting /\ last.res = "Ok" /\ last.mode # "RemoveOrFail") =>
        last.count =
            Cardinality((UpdatedBefore.assets \ UpdatedAfter.assets)
                          \cup (UpdatedAfter.assets \ UpdatedBefore.assets))

\* C13: update_subaccount returns MasterAccount for the master path,
\* NotFound for a non-master path with no sub-account, and NoOp for an
\* existing sub-account when name, details and assets are all None; the
\* keyring is unchanged in the three cases.
C13_UpdateSubaccountErrors ==
    last.op = "update_subaccount" =>
        /\ last.path = <<>> =>
               last.res = "MasterAccount" /\ keyrings[1] = last.before
        /\ (last.path # <<>>
                /\ last.path \notin DOMAIN last.before.sub_accounts) =>
               last.res = "NotFound" /\ keyrings[1] = last.before
        /\ (last.path \in DOMAIN last.before.sub_accounts
                /\ last.name = <<>> /\ last.details = <<>>
                /\ last.assets = <<>>) =>
               last.res = "NoOp" /\ keyrings[1] = last.before

C13_Witness ==
    /\ last.op = "update_subaccount"
    /\ last.path = <<>>
    /\ last.assets # <<>>
    /\ last.name # <<>>
    /\ DOMAIN last.before.sub_accounts # {}

\* the accounts of the vault in the order account_by_id scans them: keyring
\* by keyring, the master before the sub-accounts in path order
RECURSIVE ScanOrder(_)
ScanOrder(krs) ==
    IF Len(krs) = 0 THEN <<>>
    ELSE LET kr == Head(krs)
             ps == SortedPaths(DOMAIN kr.sub_accounts)
         IN  <<kr.master_account>>
                \o [j \in 1..Len(ps) |-> kr.sub_accounts[ps[j]]]
                \o ScanOrder(Tail(krs))

\* the positions of ScanOrder whose account has the identifier id
MatchesOf(krs, id) ==
    {n \in 1..Len(ScanOrder(krs)) :
        <<"id", ScanOrder(krs)[n].xpubkey[2], ScanOrder(krs)[n].xpubkey[3]>>
            = id}

\* C14: xpub, xpriv, sign_key and sign_data fail with NotFound exactly when
\* no master and no sub-account of any keyring has the given id; otherwise
\* they work on the first matching account in scan order.
C14_NotFoundIffNoMatch ==
    last.op \in {"xpub", "xpriv", "sign_key", "sign_data"} =>
        LET hit == MatchesOf(keyrings, last.id)
        IN  /\ (last.res = "NotFound") <=> (hit = {})
            /\ hit # {} =>
                  last.on = {ScanOrder(keyrings)[
                               CHOOSE n \in hit : \A k \in hit : n <= k]}

C14_Witness ==
    /\ last.op = "sign_key"
    /\ last.res = "Ok"
    /\ Len(keyrings) = 2
    /\ last.id = <<"id", 2, <<>>>>

\* the vault methods that only read the keyrings
ReadOnlyOps == {"list", "xpub", "xpriv", "sign_psbt", "sign_key", "sign_data"}

\* C15: list, xpub, xpriv, sign_psbt, sign_key and sign_data, succeeding or
\* failing, leave the keyring sequence and the backing store as they were
\* and call neither store nor load of the driver.
C15_ReadOnlyOpsFrame ==
    [][(last = Idle /\ last'.op \in ReadOnlyOps) =>
          /\ keyrings' = keyrings
          /\ backing' = backing
          /\ failures' = failures
          /\ last'.stores = 0
          /\ last'.loads = 0]_vars

C15_Witness ==
    /\ last.op = "sign_psbt"
    /\ last.res = "Ok"
    /\ last.keyOut # last.keyIn
    /\ Len(keyrings) = 2
    /\ backing = Stored(keyrings)

\* the fields of an account that hold or identify its key
KeyFields(acc) == <<acc.xpubkey, acc.encrypted, acc.unblinding>>

\* C16: every step keeps each keyring at its position and each sub-account
\* under its path, with xpubkey, encrypted and unblinding unchanged; a
\* successful seed only appends one keyring with no sub-accounts and a
\* successful derive only adds one sub-account to one keyring.
C16_AccountsStable ==
    [][/\ Len(keyrings') >= Len(keyrings)
       /\ \A i \in 1..Len(keyrings) :
             /\ KeyFields(keyrings'[i].master_account)
                   = KeyFields(keyrings[i].master_account)
             /\ \A p \in DOMAIN keyrings[i].sub_accounts :
                   /\ p \in DOMAIN keyrings'[i].sub_accounts
                   /\ KeyFields(keyrings'[i].sub_accounts[p])
                         = KeyFields(keyrings[i].sub_accounts[p])
       /\ (last = Idle /\ last'.op = "seed" /\ last'.res = "Ok") =>
             /\ Len(keyrings') = Len(keyrings) + 1
             /\ SubSeq(keyrings', 1, Len(keyrings)) = keyrings
             /\ DOMAIN keyrings'[Len(keyrings')].sub_accounts = {}
       /\ (last = Idle /\ last'.op = "derive" /\ last'.res = "Ok") =>
             /\ Len(keyrings') = Len(keyrings)
             /\ \E i \in 1..Len(keyrings) :
                   /\ \A k \in 1..Len(keyrings) :
                         k # i => keyrings'[k] = keyrings[k]
                   /\ keyrings'[i].master_account = keyrings[i].master_account
                   /\ last'.path \notin DOMAIN keyrings[i].sub_accounts
                   /\ DOMAIN keyrings'[i].sub_accounts
                         = DOMAIN keyrings[i].sub_accounts \cup {last'.path}
                   /\ \A p \in DOMAIN keyrings[i].sub_accounts :
                         keyrings'[i].sub_accounts[p]
                            = keyrings[i].sub_accounts[p]]_vars

C16_Witness ==
    /\ last.op = "derive"
    /\ last.res = "Ok"
    /\ Len(keyrings) = 2
    /\ \E i \in 1..2 : Cardinality(DOMAIN keyrings[i].sub_accounts) >= 2

\* the entries of a list reply whose id is that of the account with master
\* root r and path p
EntriesFor(ret, r, p) == {n \in 1..Len(ret) : ret[n].id = <<"id", r, p>>}

\* C17: list returns one AccountInfo per keyring master and one per
\* sub-account and nothing else; a sub-account's entry has key_source =
\* (fingerprint of its keyring's master, its path) and a master's entry has
\* the keyring's key_source.
C17_ListCoversAccounts ==
    last.op = "list" =>
        /\ last.res = "Ok"
        /\ Len(last.ret) =
              Len(keyrings) + Cardinality(
                 {<<i, p>> \in (1..Len(keyrings)) \X Paths :
                     p \in DOMAIN keyrings[i].sub_accounts})
        /\ \A i \in 1..Len(keyrings) :
              LET r == keyrings[i].master_account.xpubkey[2]
              IN  /\ \E n \in EntriesFor(last.ret, r, <<>>) :
                        /\ EntriesFor(last.ret, r, <<>>) = {n}
                        /\ last.ret[n].key_source
                              = <<keyrings[i].key_source>>
                        /\ last.ret[n].name = keyrings[i].master_account.name
                  /\ \A p \in DOMAIN keyrings[i].sub_accounts :
                        \E n \in EntriesFor(last.ret, r, p) :
                           /\ EntriesFor(last.ret, r, p) = {n}
                           /\ last.ret[n].key_source = <<<<"fp", r, <<>>>>, p>>
                           /\ last.ret[n].assets
                                 = keyrings[i].sub_accounts[p].assets

C17_Witness ==
    /\ last.op = "list"
    /\ Len(keyrings) = 2
    /\ DOMAIN keyrings[1].sub_accounts # {}
    /\ DOMAIN keyrings[2].sub_accounts # {}

\* C18: every request the daemon has received, decoded or not, succeeding
\* or failing, is answered by one reply before the next request is read; an
\* error is answered by Failure with code 0 and info the printed error, and
\* the loop then serves the next request.
C18_EveryRequestAnswered ==
    last # Idle =>
        /\ ENABLED Reply
        /\ last.res # "Ok" =>
              /\ ReplyOf(last, keyrings).type = "Failure"
              /\ ReplyOf(last, keyrings).code = 0
              /\ ReplyOf(last, keyrings).info = <<"display", last.res>>

\* C19: a request makes at most one driver call and never a load; seed and
\* derive call store exactly once when they reach the store step (they
\* have then changed the keyrings) and not at all when they fail before
\* it, the file driver's successful store writing the current sequence; no
\* other request calls the driver, and without a store call the backing
\* store is untouched.
C19_OneDriverCallPerRequest ==
    [][(last = Idle /\ last' # Idle) =>
          /\ last'.loads = 0
          /\ last'.stores \in {0, 1}
          /\ last'.op \in {"seed", "derive"} =>
                (last'.stores = 1 <=> keyrings' # keyrings)
          /\ last'.op \notin {"seed", "derive"} => last'.stores = 0
          /\ last'.stores = 0 =>
                backing' = backing /\ failures' = failures
          /\ (last'.stores = 1 /\ last'.res = "Ok" /\ driver = "file") =>
                backing' = [intact |-> TRUE, data |-> keyrings']]_vars

C19_Witness ==
    /\ last.op = "derive"
    /\ last.stores = 1
    /\ last.res = "DriverError"
    /\ Len(keyrings) = 2

\* the extended private keys a sequence of keyrings holds as they are,
\* outside a ciphertext
CleartextKeys(krs) ==
    UNION {{a.encrypted :
              a \in {acc \in {krs[i].master_account}
                          \cup {krs[i].sub_accounts[p] :
                                   p \in DOMAIN krs[i].sub_accounts} :
                        "root" \in DOMAIN acc.encrypted}}
           : i \in 1..Len(krs)}

\* the extended private keys the reply buffer of the call being answered
\* holds
KeysInReplyBuffer ==
    LET buf == EncodeReply(ReplyOf(last, keyrings))
    IN  IF buf.type_id = "XPriv" THEN buf.payload ELSE {}

\* the extended private keys the log lines of the call being answered hold
KeysInLog ==
    LET log == LogLines(last, keyrings)
    IN  CleartextKeys(log[2].arg)
          \cup (IF log[3].arg.variant = "XPriv"
                THEN {f \in log[3].arg.fields : "root" \in DOMAIN f}
                ELSE {})

AccountCalls == {"seed", "derive", "xpriv", "sign_key", "sign_data"}

\* C21: when KeysAccount::with, derive, xprivkey or sign_digest returns, with
\* success or with an error, no local that held a seed, a blinding scalar,
\* a decrypted plaintext or an extended private key still holds it (the
\* key xprivkey returns to its caller is not a local).
C21_LocalsWiped ==
    last.op \in AccountCalls => \A l \in last.locals : l.state # "held"

\* an xpriv call that found its account and was given a decryption key that
\* is not the one paired with the account's encryption key
XprivWrongKey ==
    /\ last.op = "xpriv"
    /\ last.on # {}
    /\ \A acc \in last.on : acc.encrypted.to # <<"G", last.keyIn>>

\* C22: xpriv on an existing account with a decryption key that is not the
\* one paired with the account's encryption key fails with
\* SecretKeyCorrupted, both when the decryption rejects the ciphertext and
\* when the decrypted bytes are no extended private key.
C22_WrongKeyIsCorrupted ==
    (XprivWrongKey /\ last.res # "Ok") => last.res = "SecretKeyCorrupted"

\* what load returns when it succeeds with a sequence
Loaded(accounts) == [res |-> "Ok", val |-> accounts]

\* the result of a load called in the current state of the file driver
LoadNow ==
    LET d == FileLoadOf(driver.format, backing.bytes, driver.pos)
    IN  [res |-> d.res, val |-> d.val]

\* C23: an init that succeeds where no file existed leaves a file from
\* which load returns the empty sequence; an init where the file exists
\* leaves the file as it was, and load then returns the sequence of the
\* last successful store when the file holds what that store wrote.
C23_InitCreatesOrKeeps ==
    (last.op = "init" /\ last.res = "Ok") =>
        IF ~last.before.exists
        THEN backing.exists /\ LoadNow = Loaded(<<>>)
        ELSE /\ backing = last.before
             /\ backing.bytes = Encode(driver.format, keyrings)
                   => LoadNow = Loaded(keyrings)

\* C24: in every format, after a store of K that returned success load
\* returns K, whatever the file held and wherever the cursor was; and a
\* load, a store of the loaded sequence and a second load give the
\* sequence of the first load.
C24_StoreThenLoad ==
    /\ (last.op = "store" /\ last.res = "Ok") => LoadNow = Loaded(last.arg)
    /\ (last.op = "load" /\ last.res = "Ok") =>
          \A s \in FileStoreOf(driver.format, backing.bytes, driver.pos,
                               last.ret) :
             s.res = "Ok" =>
                LET d == FileLoadOf(driver.format, s.bytes, s.pos)
                IN  d.res = "Ok" /\ d.val = last.ret

\* C25: a store through the delegated driver hands the keyring sequence to
\* the delegate, and a load through it returns what the delegate holds, so
\* that the keyrings stored are the keyrings a later load returns.
C25_DelegatedKeepsKeyrings ==
    (driver = "delegated" /\ last # Idle /\ last.stores = 1) =>
        /\ backing.data = keyrings
        /\ DriverLoad("delegated", backing).val = keyrings

\* a derive call that left KeysAccount::derive after xprivkey had returned
\* the decrypted key and before the new key was derived from it: the exit
\* taken when the decrypted key does not neuter to the account's xpubkey
DeriveMismatchExit ==
    /\ last.op = "derive"
    /\ \E l \in last.locals : l.fn = "derive" /\ l.name = "master_xpriv"
    /\ \A l \in last.locals : ~(l.fn = "derive" /\ l.name = "xprivkey")

\* C26: a derive whose decrypted key does not neuter to the account's
\* xpubkey fails with SecretKeyCorrupted, has overwritten the decrypted key
\* with fresh random bytes when it returns, adds no sub-account and does
\* not call store.
C26_MismatchWipesAndFails ==
    DeriveMismatchExit =>
        /\ last.res = "SecretKeyCorrupted"
        /\ \A l \in last.locals :
              (l.fn = "derive" /\ l.name = "master_xpriv")
                 => l.state = "fresh"
        /\ keyrings = last.before
        /\ last.stores = 0

\* what a load on a driver opened again over a file content returns
LoadOfContent(bytes) ==
    LET d == FileLoadOf(driver.format, bytes, 0)
    IN  [res |-> d.res, val |-> d.val]

\* C27: when a store of the file driver returns an error, having failed
\* before or after the truncation, a file that decoded to the sequence of
\* the last successful store before the call still decodes to it.
C27_FailedStoreKeepsFile ==
    (/\ last.op = "store"
     /\ last.res # "Ok"
     /\ LoadOfContent(last.before.bytes) = Loaded(last.stored)) =>
        LoadOfContent(backing.bytes) = Loaded(last.stored)

\* the positions of the keyrings, as they were before the call, whose
\* master has the identifier a derive call named as its root
RootMatches ==
    {i \in 1..Len(last.before) :
        <<"id", last.before[i].master_account.xpubkey[2],
          last.before[i].master_account.xpubkey[3]>> = last.root}

\* C28: derive selects the keyring by the identifier of its master only.
\* With a root that is no keyring's master id, the id of an existing
\* sub-account included, it fails with NotFound, changes no keyring and
\* does not call store; otherwise it works on the first keyring with that
\* master id and a new sub-account appears in that keyring only.
C28_DeriveByMasterId ==
    last.op = "derive" =>
        IF RootMatches = {}
        THEN /\ last.res = "NotFound"
             /\ keyrings = last.before
             /\ last.stores = 0
        ELSE LET k == CHOOSE i \in RootMatches : \A j \in RootMatches : i <= j
             IN  /\ last.res # "NotFound"
                 /\ \A i \in 1..Len(keyrings) :
                       i # k => keyrings[i] = last.before[i]
                 /\ last.res = "Ok" =>
                       /\ last.path \in DOMAIN keyrings[k].sub_accounts
                       /\ last.path \notin DOMAIN last.before[k].sub_accounts

C28_Witness ==
    /\ last.op = "derive"
    /\ last.res = "NotFound"
    /\ \E i \in 1..Len(keyrings) :
          \E p \in DOMAIN keyrings[i].sub_accounts :
             <<"id", keyrings[i].sub_accounts[p].xpubkey[2],
               keyrings[i].sub_accounts[p].xpubkey[3]>> = last.root
    /\ AccountById(keyrings, last.root) # {}

\* the matching pairs of a PSBT whose input carries no non_witness_utxo
PairsWithoutUtxo(krs, psbt) ==
    {q \in MatchingPairs(krs, psbt) :
        ~psbt.inputs[q[1]].non_witness_utxo.some}

\* C29: sign_psbt, called with the key the matched masters are encrypted
\* to, fails with Transport and returns no PSBT when an input with an
\* entry matching a keyring master carries no non_witness_utxo, also when
\* earlier inputs have been signed.
C29_MissingUtxoIsTransport ==
    (/\ last.op = "sign_psbt"
     /\ PairsWithoutUtxo(keyrings, last.psbt) # {}
     /\ \A q \in MatchingPairs(keyrings, last.psbt) :
           MasterOf(keyrings,
                    last.psbt.inputs[q[1]].bip32_derivation[q[2]].fp)
              .encrypted.to = <<"G", last.keyIn>>) =>
        /\ last.res = "Transport"
        /\ last.ret = {}

\* the inputs of a PSBT (numbered from 1) that have no entry whose
\* fingerprint is that of a keyring master
UnmatchedInputs(krs, psbt) ==
    {i \in 1..Len(psbt.inputs) :
        \A q \in MatchingPairs(krs, psbt) : q[1] # i}

\* C30: a PSBT sign_psbt returns has the unsigned transaction and the
\* number of inputs it was given, and every input without an entry that
\* matches a keyring master is as it was received; sub-accounts are never
\* matched; a PSBT with no matching entry is returned unchanged with
\* success, whether or not its inputs carry a non_witness_utxo.
C30_UnmatchedInputsUntouched ==
    last.op = "sign_psbt" =>
        /\ \A out \in last.ret :
              /\ out.tx_input = last.psbt.tx_input
              /\ Len(out.inputs) = Len(last.psbt.inputs)
              /\ \A i \in UnmatchedInputs(keyrings, last.psbt) :
                    out.inputs[i] = last.psbt.inputs[i]
        /\ MatchingPairs(keyrings, last.psbt) = {} =>
              last.res = "Ok" /\ last.ret = {last.psbt}

C30_Witness ==
    /\ last.op = "sign_psbt"
    /\ last.res = "Ok"
    /\ last.ret = {last.psbt}
    /\ ~last.psbt.inputs[1].non_witness_utxo.some
    /\ 1 \in DOMAIN last.psbt.inputs[1].bip32_derivation
    /\ \E i \in 1..Len(keyrings) :
          \E p \in DOMAIN keyrings[i].sub_accounts :
             last.psbt.inputs[1].bip32_derivation[1].fp
                = <<"fp", keyrings[i].sub_accounts[p].xpubkey[2],
                    keyrings[i].sub_accounts[p].xpubkey[3]>>

====
